---- MODULE Spec2Model ----
(***************************************************************************)
(* A model of the field extractors of the HRFlow CV parser                 *)
(* (cv-parser/main.py).  Text is a sequence of one-character strings, so   *)
(* that the regular expressions and the string methods of the source can   *)
(* be evaluated character by character as Python evaluates them.           *)
(***************************************************************************)
EXTENDS Integers, Sequences, FiniteSets, TLC

VARIABLES
    text,          \* the text argument of the extractor under study
    pc,            \* position of the run
    normalized,    \* normalize_text(text)
    renormalized,  \* normalize_text(normalize_text(text))
    email,         \* the value extract_email returns
    phone,         \* the value extract_phone returns
    pattern_idx,   \* extract_phone: how many patterns the loop has tried
    name,          \* the value extract_name returns
    strategy,      \* extract_name: the strategy it is at, or that returned
    found_skills,  \* extract_skills: the set of labels found so far
    experience_years, \* the value extract_experience_years returns
    experience_idx,   \* extract_experience_years: how many patterns the loop has tried
    degrees,       \* extract_education: the candidates, in the order they were found
    education      \* the value extract_education returns

vars == <<text, pc, normalized, renormalized, email, phone, pattern_idx, name, strategy,
          found_skills, experience_years, experience_idx, degrees, education>>

\* the variables of each extractor, and the ones it leaves alone
normalizeVars == <<normalized, renormalized>>
emailVars == <<email>>
phoneVars == <<phone, pattern_idx>>
nameVars == <<name, strategy>>
skillVars == <<found_skills>>
experienceVars == <<experience_years, experience_idx>>
educationVars == <<degrees, education>>
laterVars == <<experienceVars, educationVars>>
notNormalize == <<emailVars, phoneVars, nameVars, skillVars, laterVars>>
notEmail == <<normalizeVars, phoneVars, nameVars, skillVars, laterVars>>
notPhone == <<normalizeVars, emailVars, nameVars, skillVars, laterVars>>
notName == <<normalizeVars, emailVars, phoneVars, skillVars, laterVars>>
notSkills == <<normalizeVars, emailVars, phoneVars, nameVars, laterVars>>
notExperience == <<normalizeVars, emailVars, phoneVars, nameVars, skillVars, educationVars>>
notEducation == <<normalizeVars, emailVars, phoneVars, nameVars, skillVars, experienceVars>>

(***************************************************************************)
(* Characters and the str methods the extractors use.                      *)
(***************************************************************************)
UpperSeq == <<"A","B","C","D","E","F","G","H","I","J","K","L","M",
              "N","O","P","Q","R","S","T","U","V","W","X","Y","Z">>
LowerSeq == <<"a","b","c","d","e","f","g","h","i","j","k","l","m",
              "n","o","p","q","r","s","t","u","v","w","x","y","z">>
Upper == {UpperSeq[i] : i \in 1..26}
Lower == {LowerSeq[i] : i \in 1..26}
Letter == Upper \cup Lower
Digit == {"0","1","2","3","4","5","6","7","8","9"}
\* \s of the re module (the members that occur in the inputs studied)
Whitespace == {" ", "\n", "\t"}
\* \w of the re module
WordChar == Letter \cup Digit \cup {"_"}

\* the absent value: no text equals it, its one member is not a character
None == <<"None">>

\* c.lower()
ToLower == [c \in Upper |-> LowerSeq[CHOOSE i \in 1..26 : UpperSeq[i] = c]]
LowerChar(c) == IF c \in Upper THEN ToLower[c] ELSE c
\* s.lower()
LowerStr(s) == SubSeq([i \in 1..Len(s) |-> LowerChar(s[i])], 1, Len(s))

\* s[a-1:b] of Python for 1-based inclusive bounds a..b
Slice(s, a, b) == IF a > b THEN <<>> ELSE SubSeq(s, a, b)

\* needle occurs in s at 1-based position i
OccursAt(needle, s, i) ==
    /\ i >= 1
    /\ i + Len(needle) - 1 <= Len(s)
    /\ \A k \in 1..Len(needle) : s[i + k - 1] = needle[k]

\* needle in s
Contains(s, needle) == \E i \in 1..(Len(s) + 1) : OccursAt(needle, s, i)

\* s.strip()
RECURSIVE LStrip(_)
LStrip(s) == IF s # <<>> /\ Head(s) \in Whitespace THEN LStrip(Tail(s)) ELSE s
RECURSIVE RStrip(_)
RStrip(s) ==
    IF s # <<>> /\ s[Len(s)] \in Whitespace THEN RStrip(SubSeq(s, 1, Len(s) - 1)) ELSE s
Strip(s) == RStrip(LStrip(s))

\* s.split(sep) for a one-character separator: always at least one part
RECURSIVE SplitOn(_, _)
SplitOn(s, sep) ==
    IF \A i \in 1..Len(s) : s[i] # sep
    THEN <<s>>
    ELSE LET i == CHOOSE j \in 1..Len(s) :
                      s[j] = sep /\ \A k \in 1..(j - 1) : s[k] # sep
         IN <<Slice(s, 1, i - 1)>> \o SplitOn(Slice(s, i + 1, Len(s)), sep)

\* sep.join(parts)
RECURSIVE Join(_, _)
Join(parts, sep) ==
    IF parts = <<>> THEN <<>>
    ELSE IF Len(parts) = 1 THEN parts[1]
    ELSE parts[1] \o sep \o Join(Tail(parts), sep)

\* re.sub(r'\s+', ' ', s): every maximal run of whitespace becomes one space
CollapseWhitespace(s) ==
    LET kept == SelectSeq([i \in 1..Len(s) |-> i],
                          LAMBDA i : s[i] \notin Whitespace \/ i = 1 \/ s[i - 1] \notin Whitespace)
    IN SubSeq([k \in 1..Len(kept) |-> IF s[kept[k]] \in Whitespace THEN " " ELSE s[kept[k]]],
              1, Len(kept))

(***************************************************************************)
(* normalize_text                                                          *)
(***************************************************************************)
normalize_text(t) ==
    LET stripped == Strip(CollapseWhitespace(t))
        parts == SplitOn(stripped, "|")
    IN Join(parts, <<" ", "|", " ">>)

\* the inputs of the normalizer runs: every string over NormChars up to MaxNormLen
MaxNormLen == 4
NormChars == {"a", " ", "\n", "|"}
RECURSIVE StringsUpTo(_, _)
StringsUpTo(chars, n) ==
    IF n = 0 THEN {<<>>}
    ELSE LET shorter == StringsUpTo(chars, n - 1)
         IN shorter \cup {Append(s, c) : s \in {x \in shorter : Len(x) = n - 1}, c \in chars}

\* before any extractor has run
NothingExtracted ==
    /\ pc = "start"
    /\ normalized = None
    /\ renormalized = None
    /\ email = None
    /\ phone = None
    /\ pattern_idx = 0
    /\ name = None
    /\ strategy = 1
    /\ found_skills = {}
    /\ experience_years = None
    /\ experience_idx = 0
    /\ degrees = <<>>
    /\ education = <<>>

InitNormalize ==
    /\ text \in StringsUpTo(NormChars, MaxNormLen)
    /\ NothingExtracted

\* the caller normalizes the extracted text
Normalize ==
    /\ pc = "start"
    /\ normalized' = normalize_text(text)
    /\ pc' = "normalized"
    /\ UNCHANGED <<text, renormalized, notNormalize>>

\* normalizing text that is already normalized
Renormalize ==
    /\ pc = "normalized"
    /\ renormalized' = normalize_text(normalized)
    /\ pc' = "renormalized"
    /\ UNCHANGED <<text, normalized, notNormalize>>

NextNormalize == Normalize \/ Renormalize

SpecNormalize == InitNormalize /\ [][NextNormalize]_vars

\* C1: normalize_text is idempotent: normalizing a normalized text changes
\* nothing, also when the text holds pipe characters.
C1_Idempotent == pc = "renormalized" => renormalized = normalized

\* C2: the output of normalize_text has no two adjacent whitespace characters,
\* no whitespace other than the single space, no leading or trailing space,
\* exactly one space on each side of every pipe, and the empty input yields
\* the empty output.
C2_CanonicalSpacing ==
    pc # "start" =>
        /\ \A i \in 1..Len(normalized) : normalized[i] \in Whitespace => normalized[i] = " "
        /\ \A i \in 1..(Len(normalized) - 1) :
               ~(normalized[i] \in Whitespace /\ normalized[i + 1] \in Whitespace)
        /\ normalized # <<>> => (normalized[1] # " " /\ normalized[Len(normalized)] # " ")
        /\ \A i \in 1..Len(normalized) :
               normalized[i] = "|" =>
                   /\ i > 1 /\ normalized[i - 1] = " "
                   /\ i < Len(normalized) /\ normalized[i + 1] = " "
        /\ text = <<>> => normalized = <<>>

(***************************************************************************)
(* Regular expressions.  A pattern is a sequence of elements: a character  *)
(* class with a greedy {min,max} quantifier (max < 0: unbounded), or the   *)
(* assertion \b.  MatchFrom follows the backtracking order of the re       *)
(* module: each quantifier takes as many characters as it can and gives    *)
(* them back one at a time when the rest of the pattern fails.             *)
(***************************************************************************)
Rep(set, min, max) == [kind |-> "cls", set |-> set, min |-> min, max |-> max]
One(c) == Rep({c}, 1, 1)
Opt(set) == Rep(set, 0, 1)
Plus(set) == Rep(set, 1, -1)
AtLeast(set, n) == Rep(set, n, -1)
WordBoundary == [kind |-> "wb", set |-> {}, min |-> 0, max |-> 0]

\* \b at the gap before s[pos]
AtWordBoundary(s, pos) ==
    LET before == pos > 1 /\ pos - 1 <= Len(s) /\ s[pos - 1] \in WordChar
        after == pos >= 1 /\ pos <= Len(s) /\ s[pos] \in WordChar
    IN before # after

\* how many characters of set stand at s[pos..], at most max of them (no
\* limit when max is negative)
RunLen(s, pos, set, max) ==
    LET cap == IF max < 0 \/ pos + max - 1 > Len(s) THEN Len(s) ELSE pos + max - 1
    IN IF pos > Len(s) THEN 0
       ELSE IF \A k \in pos..cap : s[k] \in set THEN cap - pos + 1
       ELSE (CHOOSE k \in pos..cap : s[k] \notin set /\ \A j \in pos..(k - 1) : s[j] \in set)
                - pos

Fail == 0

\* the position after the match of pat[k..] at s[pos..], or Fail
RECURSIVE MatchFrom(_, _, _, _)
RECURSIVE TryCount(_, _, _, _, _)
MatchFrom(pat, k, s, pos) ==
    IF k > Len(pat) THEN pos
    ELSE IF pat[k].kind = "wb"
         THEN IF AtWordBoundary(s, pos) THEN MatchFrom(pat, k + 1, s, pos) ELSE Fail
         ELSE TryCount(pat, k, s, pos, RunLen(s, pos, pat[k].set, pat[k].max))
TryCount(pat, k, s, pos, n) ==
    IF n < pat[k].min THEN Fail
    ELSE LET r == MatchFrom(pat, k + 1, s, pos + n)
         IN IF r # Fail THEN r ELSE TryCount(pat, k, s, pos, n - 1)

\* re.search(pat, s): the leftmost start that matches, as [start, stop), or NoMatch
NoMatch == [start |-> 0, stop |-> 0]
Search(pat, s) ==
    LET starts == {i \in 1..(Len(s) + 1) : MatchFrom(pat, 1, s, i) # Fail}
    IN IF starts = {} THEN NoMatch
       ELSE LET i == CHOOSE x \in starts : \A y \in starts : x <= y
            IN [start |-> i, stop |-> MatchFrom(pat, 1, s, i)]

\* match.group(0) if match else None
Group0(m, s) == IF m = NoMatch THEN None ELSE Slice(s, m.start, m.stop - 1)

(***************************************************************************)
(* Patterns with groups: (?:a|b) is an element that holds its alternatives *)
(* as patterns, tried in the order written, and ( ) are two elements that  *)
(* record where the capturing group starts and stops.  MatchGroups follows *)
(* the same backtracking order as MatchFrom and also returns group 1.      *)
(***************************************************************************)
Star(set) == Rep(set, 0, -1)
Alt(alts) == [kind |-> "alt", alts |-> alts]
OptGroup(pat) == Alt(<<pat, <<>>>>)
OpenGroup == [kind |-> "open"]
CloseGroup == [kind |-> "close"]
\* the pattern of a literal string
Lit(str) == <<[kind |-> "lit", str |-> str]>>

NoGroups == [stop |-> Fail, group1 |-> NoMatch]

\* the match of pat at s[pos..]: the position after it and the span of group 1
RECURSIVE MatchGroups(_, _, _, _)
RECURSIVE TryCountGroups(_, _, _, _, _, _)
RECURSIVE TryAlts(_, _, _, _, _, _)
MatchGroups(pat, s, pos, grp) ==
    LET n == RunLen(s, pos, pat[1].set, pat[1].max)
        kind == IF Len(pat) = 0 THEN "end"
                ELSE IF pat[1].kind = "cls" /\ n < pat[1].min THEN "short"
                ELSE pat[1].kind
        \* the greedy count, and the first alternative
        r == MatchGroups(Tail(pat), s, pos + n, grp)
        a == MatchGroups(pat[1].alts[1] \o Tail(pat), s, pos, grp)
    IN CASE kind = "end" -> [stop |-> pos, group1 |-> grp]
         [] kind = "short" -> NoGroups
         [] kind = "wb" ->
                IF AtWordBoundary(s, pos) THEN MatchGroups(Tail(pat), s, pos, grp)
                ELSE NoGroups
         [] kind = "lit" ->
                IF OccursAt(pat[1].str, s, pos)
                THEN MatchGroups(Tail(pat), s, pos + Len(pat[1].str), grp)
                ELSE NoGroups
         [] kind = "open" -> MatchGroups(Tail(pat), s, pos, [start |-> pos, stop |-> pos])
         [] kind = "close" -> MatchGroups(Tail(pat), s, pos, [grp EXCEPT !.stop = pos])
         [] kind = "alt" ->
                IF a # NoGroups THEN a ELSE TryAlts(pat[1].alts, 2, Tail(pat), s, pos, grp)
         [] kind = "cls" ->
                IF r # NoGroups THEN r ELSE TryCountGroups(pat[1], Tail(pat), s, pos, n - 1, grp)
\* the largest count from n down to e.min after which the rest matches; the
\* counts are tried 64 at a time
TryCountGroups(e, rest, s, pos, n, grp) ==
    IF n < e.min THEN NoGroups
    ELSE LET lo == IF n - 63 < e.min THEN e.min ELSE n - 63
             ok == {k \in lo..n : MatchGroups(rest, s, pos + k, grp).stop # Fail}
         IN IF ok # {}
            THEN MatchGroups(rest, s, pos + (CHOOSE k \in ok : \A j \in ok : j <= k), grp)
            ELSE TryCountGroups(e, rest, s, pos, lo - 1, grp)
\* the first of the alternatives from a on after which the rest matches
TryAlts(alts, a, rest, s, pos, grp) ==
    IF a > Len(alts) THEN NoGroups
    ELSE IF a = Len(alts) THEN MatchGroups(alts[a] \o rest, s, pos, grp)
    ELSE LET ok == {b \in a..Len(alts) : MatchGroups(alts[b] \o rest, s, pos, grp).stop # Fail}
         IN IF ok = {} THEN NoGroups
            ELSE MatchGroups(alts[CHOOSE b \in ok : \A j \in ok : b <= j] \o rest, s, pos, grp)

\* re.search(pat, s[from..]): the leftmost match at or after from, with its
\* group 1, or NoGroups; the starts after from are tried 32 at a time
RECURSIVE SearchGroupsFrom(_, _, _)
SearchGroupsFrom(pat, s, from) ==
    IF from > Len(s) + 1 THEN [start |-> 0, stop |-> Fail, group1 |-> NoMatch]
    ELSE LET r == MatchGroups(pat, s, from, NoMatch)
         IN IF r.stop # Fail THEN [start |-> from, stop |-> r.stop, group1 |-> r.group1]
            ELSE LET hi == IF from + 32 > Len(s) + 1 THEN Len(s) + 1 ELSE from + 32
                     ok == {p \in (from + 1)..hi : MatchGroups(pat, s, p, NoMatch).stop # Fail}
                 IN IF ok # {}
                    THEN LET p == CHOOSE q \in ok : \A j \in ok : q <= j
                             m == MatchGroups(pat, s, p, NoMatch)
                         IN [start |-> p, stop |-> m.stop, group1 |-> m.group1]
                    ELSE SearchGroupsFrom(pat, s, hi + 1)
SearchGroups(pat, s) == SearchGroupsFrom(pat, s, 1)

\* match.group(1)
Group1(m, s) == Slice(s, m.group1.start, m.group1.stop - 1)

\* int(digits) for a run of decimal digits.  A Python int has no width, so the
\* value is kept as its decimal numeral, the digits without leading zeros: two
\* runs of digits give the same int exactly when they give the same numeral.
RECURSIVE IntNumeral(_)
IntNumeral(digits) ==
    IF Len(digits) > 1 /\ Head(digits) = "0" THEN IntNumeral(Tail(digits)) ELSE digits
\* int() of CPython 3.11 (the build of src/cv-parser/__pycache__) raises
\* ValueError for a string of more than sys.int_info.default_max_str_digits digits
int_max_str_digits == 4300
ValueError == <<"ValueError">>
ToInt(digits) == IF Len(digits) > int_max_str_digits THEN ValueError ELSE IntNumeral(digits)

\* the concatenation of a sequence of strings
RECURSIVE Concat(_)
Concat(pieces) == IF pieces = <<>> THEN <<>> ELSE Head(pieces) \o Concat(Tail(pieces))

\* every sequence of at most n members of a set of pieces, concatenated
TextsOf(pieces, n) == {Concat(ps) : ps \in StringsUpTo(pieces, n)}

(***************************************************************************)
(* extract_email                                                           *)
(***************************************************************************)
LocalChars == Letter \cup Digit \cup {".", "_", "%", "+", "-"}
DomainChars == Letter \cup Digit \cup {".", "-"}
\* the class [A-Z|a-z] of the source: the pipe is a member
TldChars == Letter \cup {"|"}

email_pattern ==
    <<WordBoundary, Plus(LocalChars), One("@"), Plus(DomainChars), One("."),
      AtLeast(TldChars, 2), WordBoundary>>

extract_email(t) == Group0(Search(email_pattern, t), t)

MaxEmailPieces == 3
EmailPieces ==
    { <<"a", "@", "b", ".", "c", "o">>,      \* a@b.co
      <<"a", "@", "b", ".", "c">>,           \* a@b.c: the TLD is too short
      <<"x">>, <<"|">>, <<" ">>, <<".">>, <<"@">> }

InitEmail ==
    /\ text \in TextsOf(EmailPieces, MaxEmailPieces)
    /\ NothingExtracted

ExtractEmail ==
    /\ pc = "start"
    /\ email' = extract_email(text)
    /\ pc' = "done"
    /\ UNCHANGED <<text, notEmail>>

NextEmail == ExtractEmail

SpecEmail == InitEmail /\ [][NextEmail]_vars

\* the canonical local@domain.tld shape: the TLD is two or more letters
well_formed_email ==
    <<WordBoundary, Plus(LocalChars), One("@"), Plus(DomainChars), One("."),
      AtLeast(Letter, 2), WordBoundary>>

\* C6: extract_email returns exactly the leftmost well-formed email token of
\* the text, nothing attached and nothing missing, and is absent exactly when
\* the text holds no such token.
C6_ExactEmailToken ==
    pc = "done" => email = Group0(Search(well_formed_email, text), text)

(***************************************************************************)
(* extract_phone                                                           *)
(***************************************************************************)
Separator == {"-", ".", " ", "\n", "\t"}     \* [-.\s]

\* \+\d{1,4}\s?\d{6,10}: international, +973 33430100
IntlPlain == <<One("+"), Rep(Digit, 1, 4), Opt(Whitespace), Rep(Digit, 6, 10)>>
\* \+\d{1,4}[-.\s]?\d{3,4}[-.\s]?\d{3,4}[-.\s]?\d{3,4}: international with separators
IntlSeparated ==
    <<One("+"), Rep(Digit, 1, 4), Opt(Separator), Rep(Digit, 3, 4), Opt(Separator),
      Rep(Digit, 3, 4), Opt(Separator), Rep(Digit, 3, 4)>>
\* \+?\d{1,3}[-.\s]?\(?\d{3}\)?[-.\s]?\d{3}[-.\s]?\d{4}: US/generic
GenericGrouped ==
    <<Opt({"+"}), Rep(Digit, 1, 3), Opt(Separator), Opt({"("}), Rep(Digit, 3, 3),
      Opt({")"}), Opt(Separator), Rep(Digit, 3, 3), Opt(Separator), Rep(Digit, 4, 4)>>
\* \(?\d{3}\)?[-.\s]?\d{3}[-.\s]?\d{4}: local US
LocalGrouped ==
    <<Opt({"("}), Rep(Digit, 3, 3), Opt({")"}), Opt(Separator), Rep(Digit, 3, 3),
      Opt(Separator), Rep(Digit, 4, 4)>>
\* \b\d{8}\b: simple 8 digit
Bare8 == <<WordBoundary, Rep(Digit, 8, 8), WordBoundary>>

\* the order in which the international pattern with separators comes first
phone_patterns_separated_first ==
    <<IntlSeparated, IntlPlain, GenericGrouped, LocalGrouped, Bare8>>

phone_patterns == <<IntlPlain, IntlSeparated, GenericGrouped, LocalGrouped, Bare8>>

MaxPhonePieces == 3
PhonePieces ==
    { <<"+", "1">>, <<"+", "9", "7", "3">>, <<"1">>,
      <<"5", "5", "5", "-", "1", "2", "3", "-", "4", "5", "6", "7">>,
      <<"3", "3", "4", "3", "0", "1", "0", "0">>,
      <<" ">>, <<"x">> }

InitPhone ==
    /\ text \in TextsOf(PhonePieces, MaxPhonePieces)
    /\ NothingExtracted

\* for pattern in phone_patterns: the pattern matches, its first match is returned
PhoneMatch ==
    /\ pc = "start"
    /\ pattern_idx < Len(phone_patterns)
    /\ LET match == Search(phone_patterns[pattern_idx + 1], text)
       IN /\ match # NoMatch
          /\ phone' = Group0(match, text)
    /\ pattern_idx' = pattern_idx + 1
    /\ pc' = "done"
    /\ UNCHANGED <<text, notPhone>>

\* the pattern does not match: on to the next one
PhoneNoMatch ==
    /\ pc = "start"
    /\ pattern_idx < Len(phone_patterns)
    /\ Search(phone_patterns[pattern_idx + 1], text) = NoMatch
    /\ pattern_idx' = pattern_idx + 1
    /\ UNCHANGED <<text, pc, phone, notPhone>>

\* the loop ran out of patterns: return None
PhoneNone ==
    /\ pc = "start"
    /\ pattern_idx = Len(phone_patterns)
    /\ phone' = None
    /\ pc' = "done"
    /\ UNCHANGED <<text, pattern_idx, notPhone>>

NextPhone == PhoneMatch \/ PhoneNoMatch \/ PhoneNone

SpecPhone == InitPhone /\ [][NextPhone]_vars

\* the first match of the first pattern of order that matches anywhere in t
ByPriority(order, t) ==
    LET hits == {k \in 1..Len(order) : Search(order[k], t) # NoMatch}
    IN IF hits = {} THEN None
       ELSE LET k == CHOOSE x \in hits : \A y \in hits : x <= y
            IN Group0(Search(order[k], t), t)

\* C7 as stated: the international pattern with flexible separators is tried
\* before the international pattern without separators, then the grouped
\* formats, then the bare 8 digits.
C7_SeparatedFirst ==
    pc = "done" =>
        phone = ByPriority(<<IntlSeparated, IntlPlain, GenericGrouped, LocalGrouped, Bare8>>,
                           text)

\* C7 amended: the international pattern without separators is tried first,
\* then the one with flexible separators, then the generic grouped format,
\* the local grouped format and the bare 8 digits; the first match of the
\* first pattern that matches anywhere is returned, None if none matches.
C7_PlainFirst ==
    pc = "done" =>
        phone = ByPriority(<<IntlPlain, IntlSeparated, GenericGrouped, LocalGrouped, Bare8>>,
                           text)

\* a lower-priority pattern matches earlier in the text than the returned match
C7_Witness ==
    /\ pc = "done"
    /\ pattern_idx = 1
    /\ Search(LocalGrouped, text) # NoMatch
    /\ Search(LocalGrouped, text).start < Search(IntlPlain, text).start
    /\ Search(IntlSeparated, text) # NoMatch

\* C17: the phone returned is never a truncated piece of a longer number: in
\* the text, the character just before the returned match and the character
\* just after it are not digits.
C17_NeverTruncated ==
    (pc = "done" /\ phone # None) =>
        LET match == Search(phone_patterns[pattern_idx], text)
        IN /\ ~(match.start > 1 /\ text[match.start - 1] \in Digit)
           /\ ~(match.stop <= Len(text) /\ text[match.stop] \in Digit)

(***************************************************************************)
(* extract_name                                                            *)
(***************************************************************************)
skip_keywords ==
    <<<<"c", "u", "r", "r", "i", "c", "u", "l", "u", "m">>, <<"v", "i", "t", "a", "e">>,
      <<"r", "e", "s", "u", "m", "e">>, <<"c", "v">>, <<"c", "o", "n", "t", "a", "c", "t">>,
      <<"p", "r", "o", "f", "i", "l", "e">>, <<"a", "b", "o", "u", "t">>,
      <<"s", "u", "m", "m", "a", "r", "y">>, <<"o", "b", "j", "e", "c", "t", "i", "v", "e">>,
      <<"e", "x", "p", "e", "r", "i", "e", "n", "c", "e">>,
      <<"e", "d", "u", "c", "a", "t", "i", "o", "n">>, <<"s", "k", "i", "l", "l", "s">>>>
job_title_keywords ==
    <<<<"a", "n", "a", "l", "y", "s", "t">>, <<"d", "e", "v", "e", "l", "o", "p", "e", "r">>,
      <<"e", "n", "g", "i", "n", "e", "e", "r">>, <<"m", "a", "n", "a", "g", "e", "r">>,
      <<"d", "i", "r", "e", "c", "t", "o", "r">>,
      <<"c", "o", "n", "s", "u", "l", "t", "a", "n", "t">>,
      <<"s", "p", "e", "c", "i", "a", "l", "i", "s", "t">>, <<"s", "e", "n", "i", "o", "r">>,
      <<"j", "u", "n", "i", "o", "r">>, <<"l", "e", "a", "d">>,
      <<"a", "r", "c", "h", "i", "t", "e", "c", "t">>, <<"a", "d", "m", "i", "n">>,
      <<"o", "f", "f", "i", "c", "e", "r">>, <<"d", "a", "t", "a">>,
      <<"p", "r", "o", "d", "u", "c", "t">>, <<"d", "e", "s", "i", "g", "n", "e", "r">>,
      <<"c", "o", "o", "r", "d", "i", "n", "a", "t", "o", "r">>,
      <<"e", "x", "e", "c", "u", "t", "i", "v", "e">>, <<"i", "n", "t", "e", "r", "n">>,
      <<"t", "r", "a", "i", "n", "e", "e">>>>
name_connectors ==
    <<<<"b", "i", "n">>, <<"a", "l">>, <<"d", "e">>, <<"v", "a", "n">>, <<"v", "o", "n">>,
      <<"d", "e", "r">>, <<"e", "l">>, <<"l", "a">>, <<"i", "b", "n">>>>

\* any(k in s for k in keywords)
ContainsAny(s, keywords) == \E i \in 1..Len(keywords) : Contains(s, keywords[i])

\* s.split(): the maximal runs of non-whitespace characters
RECURSIVE SplitWhitespace(_)
SplitWhitespace(s) ==
    LET t == LStrip(s)
    IN IF t = <<>> THEN <<>>
       ELSE LET n == CHOOSE k \in 1..Len(t) :
                         /\ \A j \in 1..k : t[j] \notin Whitespace
                         /\ (k = Len(t) \/ t[k + 1] \in Whitespace)
            IN <<Slice(t, 1, n)>> \o SplitWhitespace(Slice(t, n + 1, Len(t)))

\* the members of a sequence that satisfy Keep, in order
RECURSIVE SelectNonEmpty(_)
SelectNonEmpty(ss) ==
    IF ss = <<>> THEN <<>>
    ELSE IF Head(ss) = <<>> THEN SelectNonEmpty(Tail(ss))
    ELSE <<Head(ss)>> \o SelectNonEmpty(Tail(ss))

\* [l.strip() for l in text.replace('|', '\n').split('\n') if l.strip()]
NameLinesOf(t) ==
    LET replaced == [i \in 1..Len(t) |-> IF t[i] = "|" THEN "\n" ELSE t[i]]
        parts == SplitOn(replaced, "\n")
    IN SelectNonEmpty([i \in 1..Len(parts) |-> Strip(parts[i])])

\* '@' in line or re.search(r'\+?\d[\d\s\-().]{7,}', line)
contact_pattern ==
    <<Opt({"+"}), Rep(Digit, 1, 1), AtLeast(Digit \cup Whitespace \cup {"-", "(", ")", "."}, 7)>>
IsContactLine(line) == Contains(line, <<"@">>) \/ Search(contact_pattern, line) # NoMatch

\* contact_idx, 1-based: the first contact line, Len(lines) + 1 when there is none
ContactIdx(lines) ==
    IF \E i \in 1..Len(lines) : IsContactLine(lines[i])
    THEN CHOOSE i \in 1..Len(lines) :
             IsContactLine(lines[i]) /\ \A j \in 1..(i - 1) : ~IsContactLine(lines[j])
    ELSE Len(lines) + 1

\* lines[:n]
Prefix(lines, n) == SubSeq(lines, 1, IF n < Len(lines) THEN n ELSE Len(lines))

\* search_lines = lines[:contact_idx] if contact_idx > 0 else lines[:5]
SearchLines(lines) ==
    IF ContactIdx(lines) > 1 THEN Prefix(lines, ContactIdx(lines) - 1) ELSE Prefix(lines, 5)

\* [0-9@#$%^&*()+=\[\]{}|\\/<>]
DisallowedChars ==
    Digit \cup {"@", "#", "$", "%", "^", "&", "*", "(", ")", "+", "=", "[", "]", "{", "}",
                "|", "\\", "/", "<", ">"}

\* word[0].isupper() or word.lower() in name_connectors
StartsLikeName(w) ==
    w[1] \in Upper \/ \E i \in 1..Len(name_connectors) : name_connectors[i] = LowerStr(w)

\* is_valid_name without the connector allowance: every word must start uppercase
IsValidNameWord_NoConnectors(w) ==
    /\ w[1] \in Upper
    /\ \A i \in 1..Len(w) : w[i] \notin DisallowedChars

\* the word loop of strategy 1: is_valid_name
IsValidNameWord(w) ==
    /\ StartsLikeName(w)
    /\ \A i \in 1..Len(w) : w[i] \notin DisallowedChars

\* the body of the loop over search_lines: the line is returned
Strategy1Accepts(line) ==
    /\ ~ContainsAny(LowerStr(line), skip_keywords)
    /\ ~ContainsAny(LowerStr(line), job_title_keywords)
    /\ ~(Contains(line, <<"@">>) \/ Search(<<AtLeast(Digit, 5)>>, line) # NoMatch)
    /\ ~(Len(line) > 50)
    /\ LET words == SplitWhitespace(line)
       IN /\ 2 <= Len(words) /\ Len(words) <= 5
          /\ \A i \in 1..Len(words) : IsValidNameWord(words[i])

\* the first member of a sequence of lines that satisfies Strategy1Accepts, or None
Strategy1(lines) ==
    LET search_lines == SearchLines(lines)
        hits == {i \in 1..Len(search_lines) : Strategy1Accepts(search_lines[i])}
    IN IF hits = {} THEN None
       ELSE search_lines[CHOOSE i \in hits : \A j \in hits : i <= j]

\* strategy 2 as dead code: the first-chunk walk never yields a name
Strategy2_never_reached(lines) == None

\* the word loop of strategy 2: possible_name after the words from k on
RECURSIVE TokenWalk(_, _, _)
TokenWalk(words, k, possible_name) ==
    IF k > Len(words) THEN possible_name
    ELSE LET word == words[k]
         IN IF ContainsAny(LowerStr(word), job_title_keywords) THEN possible_name
            ELSE IF \E i \in 1..Len(word) : word[i] = "@" \/ word[i] \in Digit \/ word[i] = "|"
                 THEN possible_name
            ELSE IF StartsLikeName(word) THEN TokenWalk(words, k + 1, Append(possible_name, word))
            ELSE IF possible_name # <<>> THEN possible_name
            ELSE TokenWalk(words, k + 1, possible_name)

Strategy2(lines) ==
    LET first == IF lines # <<>> THEN lines[1] ELSE <<>>
        first_chunk ==
            IF \E i \in 1..Len(skip_keywords) : skip_keywords[i] = LowerStr(first)
            THEN IF Len(lines) > 1 THEN lines[2] ELSE <<>>
            ELSE first
        possible_name == TokenWalk(SplitWhitespace(first_chunk), 1, <<>>)
    IN IF 2 <= Len(possible_name) /\ Len(possible_name) <= 5
       THEN Join(possible_name, <<" ">>)
       ELSE None

\* the loop of strategy 3: merged_name after the lines from k on
RECURSIVE MergeSingleWords(_, _, _)
MergeSingleWords(lines, k, merged_name) ==
    IF k > Len(lines) THEN merged_name
    ELSE LET line == lines[k]
         IN IF /\ ~Contains(line, <<" ">>)
               /\ line[1] \in Upper
               /\ ~ContainsAny(LowerStr(line), skip_keywords)
            THEN MergeSingleWords(lines, k + 1, Append(merged_name, line))
            ELSE merged_name

Strategy3(lines) ==
    LET merged_name == MergeSingleWords(Prefix(lines, 4), 1, <<>>)
    IN IF 2 <= Len(merged_name) /\ Len(merged_name) <= 4
       THEN Join(merged_name, <<" ">>)
       ELSE None

Strategy4(lines) ==
    IF /\ lines # <<>>
       /\ 3 < Len(lines[1]) /\ Len(lines[1]) < 30
       /\ ~ContainsAny(LowerStr(lines[1]), skip_keywords)
    THEN lines[1]
    ELSE None

\* strategy k of extract_name applied to the lines of the text
StrategyResult(k, lines) ==
    CASE k = 1 -> Strategy1(lines)
      [] k = 2 -> Strategy2(lines)
      [] k = 3 -> Strategy3(lines)
      [] k = 4 -> Strategy4(lines)

\* the whole function: the first strategy that returns a name
extract_name(t) ==
    LET lines == NameLinesOf(t)
        hits == {k \in 1..4 : StrategyResult(k, lines) # None}
    IN IF hits = {} THEN None
       ELSE StrategyResult(CHOOSE k \in hits : \A j \in hits : k <= j, lines)

MaxNameLines == 2
NameLines ==
    {
      \* John Smith
      <<"J", "o", "h", "n", " ", "S", "m", "i", "t", "h">>,
      \* Ahmed bin Khalid Al Rashid
      <<"A", "h", "m", "e", "d", " ", "b", "i", "n", " ", "K", "h", "a", "l", "i", "d",
         " ", "A", "l", " ", "R", "a", "s", "h", "i", "d">>,
      \* Senior Developer
      <<"S", "e", "n", "i", "o", "r", " ", "D", "e", "v", "e", "l", "o", "p", "e", "r">>,
      \* Curriculum Vitae
      <<"C", "u", "r", "r", "i", "c", "u", "l", "u", "m", " ", "V", "i", "t", "a", "e">>,
      \* RESUME
      <<"R", "E", "S", "U", "M", "E">>,
      \* a@b.co
      <<"a", "@", "b", ".", "c", "o">>,
      \* +1234567890
      <<"+", "1", "2", "3", "4", "5", "6", "7", "8", "9", "0">>,
      \* ##invalid###
      <<"#", "#", "i", "n", "v", "a", "l", "i", "d", "#", "#", "#">>,
      \* Mary
      <<"M", "a", "r", "y">>,
      \* john smith
      <<"j", "o", "h", "n", " ", "s", "m", "i", "t", "h">>,
      \* John (Smith)
      <<"J", "o", "h", "n", " ", "(", "S", "m", "i", "t", "h", ")">>,
      \* Al B C D E F
      <<"A", "l", " ", "B", " ", "C", " ", "D", " ", "E", " ", "F">>,
      \* John Smith a@b.co
      <<"J", "o", "h", "n", " ", "S", "m", "i", "t", "h", " ", "a", "@", "b", ".", "c", "o">>,
      \* John Smith Engineer
      <<"J", "o", "h", "n", " ", "S", "m", "i", "t", "h", " ", "E", "n", "g", "i", "n",
         "e", "e", "r">>,
      \* Maximiliana Wolfeschlegelsteinhausenbergerdorff Xy (50 characters)
      <<"M", "a", "x", "i", "m", "i", "l", "i", "a", "n", "a", " ", "W", "o", "l", "f",
         "e", "s", "c", "h", "l", "e", "g", "e", "l", "s", "t", "e", "i", "n", "h", "a",
         "u", "s", "e", "n", "b", "e", "r", "g", "e", "r", "d", "o", "r", "f", "f", " ",
         "X", "y">>,
      \* Maximiliana Wolfeschlegelsteinhausenbergerdorff Xyz (51 characters)
      <<"M", "a", "x", "i", "m", "i", "l", "i", "a", "n", "a", " ", "W", "o", "l", "f",
         "e", "s", "c", "h", "l", "e", "g", "e", "l", "s", "t", "e", "i", "n", "h", "a",
         "u", "s", "e", "n", "b", "e", "r", "g", "e", "r", "d", "o", "r", "f", "f", " ",
         "X", "y", "z">> }
LineSeparators == {<<"\n">>, <<" ", "|", " ">>}

InitName ==
    /\ \E ls \in StringsUpTo(NameLines, MaxNameLines), sep \in LineSeparators :
           text = Join(ls, sep)
    /\ NothingExtracted

\* the strategy at hand finds a name: return it
StrategyReturns ==
    /\ pc = "start"
    /\ StrategyResult(strategy, NameLinesOf(text)) # None
    /\ name' = StrategyResult(strategy, NameLinesOf(text))
    /\ pc' = "done"
    /\ UNCHANGED <<text, strategy, notName>>

\* the strategy at hand finds none: fall through to the next one
StrategyFallsThrough ==
    /\ pc = "start"
    /\ strategy < 4
    /\ StrategyResult(strategy, NameLinesOf(text)) = None
    /\ strategy' = strategy + 1
    /\ UNCHANGED <<text, pc, name, notName>>

\* all four strategies failed: return None
NoName ==
    /\ pc = "start"
    /\ strategy = 4
    /\ StrategyResult(4, NameLinesOf(text)) = None
    /\ name' = None
    /\ pc' = "done"
    /\ UNCHANGED <<text, strategy, notName>>

NextName == StrategyReturns \/ StrategyFallsThrough \/ NoName

SpecName == InitName /\ [][NextName]_vars

\* C3: for the input "##invalid###", which holds no name-like text,
\* extract_name returns None.
C3_InvalidTextHasNoName ==
    (pc = "done" /\ text = <<"#", "#", "i", "n", "v", "a", "l", "i", "d", "#", "#", "#">>)
        => name = None

\* a line as C4 describes it: 2 to 5 words, each starting uppercase or being a
\* connector, no digit or disallowed punctuation, at most 50 characters, no
\* header or job-title keyword
C4_NameLike(line) ==
    LET words == SplitWhitespace(line)
        lower == LowerStr(line)
    IN /\ Len(words) \in 2..5
       /\ \A i \in 1..Len(words) :
              \/ words[i][1] \in Upper
              \/ \E c \in 1..Len(name_connectors) : name_connectors[c] = LowerStr(words[i])
       /\ \A i \in 1..Len(line) : line[i] \notin DisallowedChars
       /\ Len(line) <= 50
       /\ \A k \in 1..Len(skip_keywords) : ~Contains(lower, skip_keywords[k])
       /\ \A k \in 1..Len(job_title_keywords) : ~Contains(lower, job_title_keywords[k])

\* the name-like lines that stand before the first contact line
C4_Candidates ==
    LET lines == NameLinesOf(text)
    IN {i \in 1..Len(lines) :
            /\ C4_NameLike(lines[i])
            /\ \A j \in 1..i : ~IsContactLine(lines[j])}

\* C4: when some line before the first contact line is name-like, strategy 1
\* returns the first such line verbatim and whole, connectors included.
C4_FirstNameLikeLineVerbatim ==
    (pc = "done" /\ C4_Candidates # {}) =>
        /\ strategy = 1
        /\ name = NameLinesOf(text)[CHOOSE i \in C4_Candidates : \A j \in C4_Candidates : i <= j]

\* a name with connectors is returned whole from the second line, the first
\* line having been passed over
C4_Witness ==
    /\ pc = "done"
    /\ C4_Candidates # {}
    /\ 1 \notin C4_Candidates
    /\ Contains(name, <<" ", "b", "i", "n", " ">>)
    /\ Len(SplitWhitespace(name)) = 5

\* C5: the name extract_name returns holds no header keyword and no job-title
\* keyword, compared case-insensitively, whichever strategy returned it.
C5_NoKeywordInName ==
    (pc = "done" /\ name # None) =>
        /\ ~ContainsAny(LowerStr(name), skip_keywords)
        /\ ~ContainsAny(LowerStr(name), job_title_keywords)

\* the positions of the lines strategy 1 looks at: those before the first
\* contact line, every line when there is none, the first 5 when the first
\* line is the contact line
C16_Window ==
    LET lines == NameLinesOf(text)
        anchors == {a \in 1..Len(lines) : IsContactLine(lines[a])}
    IN IF anchors = {} THEN 1..Len(lines)
       ELSE IF 1 \in anchors THEN {i \in 1..Len(lines) : i <= 5}
       ELSE {i \in 1..Len(lines) : \A a \in anchors : i < a}

\* the first line, or the second when the first is exactly a header keyword
C16_FirstChunk ==
    LET lines == NameLinesOf(text)
    IN IF lines = <<>> THEN <<>>
       ELSE IF \E k \in 1..Len(skip_keywords) : skip_keywords[k] = LowerStr(lines[1])
            THEN IF Len(lines) > 1 THEN lines[2] ELSE <<>>
       ELSE lines[1]

\* the words the walk over the first chunk keeps: it ends before the first
\* word holding a job-title keyword, '@' or a digit, passes over the words
\* before the first name-like word and ends at the first word after it that
\* is not name-like
C16_LeadingWords ==
    LET words == SplitWhitespace(C16_FirstChunk)
        stops == {k \in 1..Len(words) :
                     \/ \E t \in 1..Len(job_title_keywords) :
                            Contains(LowerStr(words[k]), job_title_keywords[t])
                     \/ \E i \in 1..Len(words[k]) : words[k][i] \in Digit \cup {"@"}}
        names == {k \in 1..Len(words) :
                     /\ \A j \in stops : k < j
                     /\ \/ words[k][1] \in Upper
                        \/ \E c \in 1..Len(name_connectors) :
                               name_connectors[c] = LowerStr(words[k])}
    IN IF names = {} THEN <<>>
       ELSE LET first == CHOOSE k \in names : \A j \in names : k <= j
                run == {j \in names : \A k \in first..j : k \in names}
                last == CHOOSE j \in run : \A k \in run : k <= j
            IN SubSeq(words, first, last)

\* C16 as stated: strategy 2 of the name resolver is never reached, no text
\* has its name produced by strategy 2.
C16_Strategy2NeverReached == ~(pc = "done" /\ strategy = 2)

\* C16 amended: strategy 2 is reached exactly when no line strategy 1 looks at
\* is name-like and the walk over the first chunk keeps 2 to 5 words, and it
\* returns those words joined by single spaces.
C16_Strategy2Decides ==
    pc = "done" =>
        /\ strategy = 2 <=>
               /\ \A i \in C16_Window : ~C4_NameLike(NameLinesOf(text)[i])
               /\ Len(C16_LeadingWords) \in 2..5
        /\ strategy = 2 => name = Join(C16_LeadingWords, <<" ">>)

\* a single line holds the name and the email, and strategy 2 returns the name
C16_Witness ==
    /\ pc = "done"
    /\ strategy = 2
    /\ Len(NameLinesOf(text)) = 1
    /\ Contains(text, <<"@">>)
    /\ name = <<"J", "o", "h", "n", " ", "S", "m", "i", "t", "h">>

(***************************************************************************)
(* extract_skills                                                          *)
(***************************************************************************)
SKILLS_LIST ==
    <<<<"p", "y", "t", "h", "o", "n">>, <<"j", "a", "v", "a">>,
      <<"j", "a", "v", "a", "s", "c", "r", "i", "p", "t">>,
      <<"t", "y", "p", "e", "s", "c", "r", "i", "p", "t">>, <<"r", "e", "a", "c", "t">>,
      <<"n", "o", "d", "e", ".", "j", "s">>, <<"n", "o", "d", "e", "j", "s">>,
      <<"a", "n", "g", "u", "l", "a", "r">>, <<"v", "u", "e">>, <<"s", "q", "l">>,
      <<"p", "o", "s", "t", "g", "r", "e", "s", "q", "l">>, <<"m", "y", "s", "q", "l">>,
      <<"m", "o", "n", "g", "o", "d", "b">>, <<"d", "o", "c", "k", "e", "r">>,
      <<"k", "u", "b", "e", "r", "n", "e", "t", "e", "s">>, <<"a", "w", "s">>,
      <<"a", "z", "u", "r", "e">>, <<"g", "c", "p">>, <<"g", "i", "t">>,
      <<"a", "g", "i", "l", "e">>, <<"s", "c", "r", "u", "m">>, <<"h", "t", "m", "l">>,
      <<"c", "s", "s">>, <<"r", "e", "s", "t">>, <<"a", "p", "i">>,
      <<"m", "i", "c", "r", "o", "s", "e", "r", "v", "i", "c", "e", "s">>,
      <<"c", "i", "/", "c", "d">>, <<"d", "e", "v", "o", "p", "s">>,
      <<"m", "a", "c", "h", "i", "n", "e", " ", "l", "e", "a", "r", "n", "i", "n", "g">>,
      <<"d", "a", "t", "a", " ", "a", "n", "a", "l", "y", "s", "i", "s">>,
      <<"e", "x", "c", "e", "l">>, <<"p", "o", "w", "e", "r", "p", "o", "i", "n", "t">>,
      <<"c", "o", "m", "m", "u", "n", "i", "c", "a", "t", "i", "o", "n">>,
      <<"l", "e", "a", "d", "e", "r", "s", "h", "i", "p">>,
      <<"p", "r", "o", "j", "e", "c", "t", " ", "m", "a", "n", "a", "g", "e", "m", "e", "n", "t">>,
      <<"t", "e", "a", "m", "w", "o", "r", "k">>,
      <<"p", "r", "o", "b", "l", "e", "m", " ", "s", "o", "l", "v", "i", "n", "g">>,
      <<"c", "#">>, <<"c", "+", "+">>, <<".", "n", "e", "t">>, <<"g", "o">>,
      <<"g", "o", "l", "a", "n", "g">>, <<"r", "u", "s", "t">>, <<"s", "w", "i", "f", "t">>,
      <<"k", "o", "t", "l", "i", "n">>, <<"p", "h", "p">>, <<"r", "u", "b", "y">>,
      <<"t", "e", "r", "r", "a", "f", "o", "r", "m">>, <<"a", "n", "s", "i", "b", "l", "e">>,
      <<"j", "e", "n", "k", "i", "n", "s">>, <<"l", "i", "n", "u", "x">>,
      <<"w", "i", "n", "d", "o", "w", "s">>,
      <<"n", "e", "t", "w", "o", "r", "k", "i", "n", "g">>, <<"r", "e", "d", "i", "s">>,
      <<"e", "l", "a", "s", "t", "i", "c", "s", "e", "a", "r", "c", "h">>,
      <<"k", "a", "f", "k", "a">>, <<"r", "a", "b", "b", "i", "t", "m", "q">>,
      <<"g", "r", "a", "p", "h", "q", "l">>, <<"s", "p", "r", "i", "n", "g">>,
      <<"d", "j", "a", "n", "g", "o">>, <<"f", "l", "a", "s", "k">>,
      <<"f", "a", "s", "t", "a", "p", "i">>, <<"e", "x", "p", "r", "e", "s", "s">>,
      <<"n", "e", "x", "t", "j", "s">>, <<"n", "u", "x", "t">>,
      <<"s", "v", "e", "l", "t", "e">>, <<"t", "a", "i", "l", "w", "i", "n", "d">>,
      <<"f", "i", "g", "m", "a">>, <<"p", "h", "o", "t", "o", "s", "h", "o", "p">>,
      <<"i", "l", "l", "u", "s", "t", "r", "a", "t", "o", "r">>, <<"u", "i", "/", "u", "x">>,
      <<"u", "x", " ", "d", "e", "s", "i", "g", "n">>,
      <<"u", "i", " ", "d", "e", "s", "i", "g", "n">>,
      <<"s", "a", "l", "e", "s", "f", "o", "r", "c", "e">>, <<"s", "a", "p">>,
      <<"o", "r", "a", "c", "l", "e">>, <<"p", "o", "w", "e", "r", " ", "b", "i">>,
      <<"t", "a", "b", "l", "e", "a", "u">>, <<"j", "i", "r", "a">>,
      <<"c", "o", "n", "f", "l", "u", "e", "n", "c", "e">>, <<"p", "a", "n", "d", "a", "s">>,
      <<"n", "u", "m", "p", "y">>, <<"t", "e", "n", "s", "o", "r", "f", "l", "o", "w">>,
      <<"p", "y", "t", "o", "r", "c", "h">>,
      <<"s", "c", "i", "k", "i", "t", "-", "l", "e", "a", "r", "n">>,
      <<"s", "p", "a", "r", "k">>, <<"h", "a", "d", "o", "o", "p">>, <<"r">>,
      <<"m", "a", "t", "l", "a", "b">>, <<"s", "t", "a", "t", "i", "s", "t", "i", "c", "s">>,
      <<"d", "e", "e", "p", " ", "l", "e", "a", "r", "n", "i", "n", "g">>, <<"n", "l", "p">>,
      <<"c", "o", "m", "p", "u", "t", "e", "r", " ", "v", "i", "s", "i", "o", "n">>>>

\* the alias table, as <<alias, canonical skill>> pairs
SKILL_ALIASES ==
    <<<<<<"j", "s">>, <<"j", "a", "v", "a", "s", "c", "r", "i", "p", "t">>>>,
      <<<<"t", "s">>, <<"t", "y", "p", "e", "s", "c", "r", "i", "p", "t">>>>,
      <<<<"r", "e", "a", "c", "t", "j", "s">>, <<"r", "e", "a", "c", "t">>>>,
      <<<<"r", "e", "a", "c", "t", ".", "j", "s">>, <<"r", "e", "a", "c", "t">>>>,
      <<<<"n", "o", "d", "e">>, <<"n", "o", "d", "e", ".", "j", "s">>>>,
      <<<<"p", "o", "s", "t", "g", "r", "e", "s">>, <<"p", "o", "s", "t", "g", "r", "e", "s", "q", "l">>>>,
      <<<<"m", "o", "n", "g", "o">>, <<"m", "o", "n", "g", "o", "d", "b">>>>,
      <<<<"k", "8", "s">>, <<"k", "u", "b", "e", "r", "n", "e", "t", "e", "s">>>>,
      <<<<"p", "y">>, <<"p", "y", "t", "h", "o", "n">>>>,
      <<<<"g", "o", "l", "a", "n", "g">>, <<"g", "o">>>>,
      <<<<"c", "s", "h", "a", "r", "p">>, <<"c", "#">>>>,
      <<<<"d", "o", "t", "n", "e", "t">>, <<".", "n", "e", "t">>>>,
      <<<<"s", "c", "i", "k", "i", "t">>, <<"s", "c", "i", "k", "i", "t", "-", "l", "e", "a", "r", "n">>>>,
      <<<<"s", "k", "l", "e", "a", "r", "n">>, <<"s", "c", "i", "k", "i", "t", "-", "l", "e", "a", "r", "n">>>>,
      <<<<"t", "f">>, <<"t", "e", "n", "s", "o", "r", "f", "l", "o", "w">>>>,
      <<<<"a", "w", "s", " ", "l", "a", "m", "b", "d", "a">>, <<"a", "w", "s">>>>,
      <<<<"e", "c", "2">>, <<"a", "w", "s">>>>, <<<<"s", "3">>, <<"a", "w", "s">>>>>>

\* skills that keep special casing
special_case_skills ==
    {<<"c", "#">>, <<"c", "+", "+">>, <<".", "n", "e", "t">>, <<"c", "i", "/", "c", "d">>,
     <<"u", "i", "/", "u", "x">>, <<"n", "l", "p">>}
\* skills matched by direct search: they hold non-word characters
special_pattern_skills ==
    {<<"c", "#">>, <<"c", "+", "+">>, <<".", "n", "e", "t">>, <<"c", "i", "/", "c", "d">>,
     <<"u", "i", "/", "u", "x">>, <<"n", "o", "d", "e", ".", "j", "s">>}

ToUpper == [c \in Lower |-> UpperSeq[CHOOSE i \in 1..26 : LowerSeq[i] = c]]
UpperChar(c) == IF c \in Lower THEN ToUpper[c] ELSE c
\* s.upper()
UpperStr(s) == SubSeq([i \in 1..Len(s) |-> UpperChar(s[i])], 1, Len(s))
\* s.title(): a letter that follows a non-letter is upper-cased, any other lower-cased
TitleStr(s) ==
    SubSeq([i \in 1..Len(s) |->
               IF i = 1 \/ s[i - 1] \notin Letter THEN UpperChar(s[i]) ELSE LowerChar(s[i])],
           1, Len(s))

format_skill(skill) ==
    IF LowerStr(skill) \in special_case_skills
    THEN IF LowerStr(skill) \in {<<"n", "l", "p">>} THEN UpperStr(skill) ELSE skill
    ELSE TitleStr(skill)

\* [a-z0-9#+./-]
TokenChars == Lower \cup Digit \cup {"#", "+", ".", "/", "-"}

\* re.findall(r'[a-z0-9#+./-]+', s): the maximal runs of token characters, in order
RECURSIVE FindTokens(_, _)
FindTokens(s, pos) ==
    IF pos > Len(s) THEN <<>>
    ELSE IF s[pos] \notin TokenChars THEN FindTokens(s, pos + 1)
    ELSE LET n == RunLen(s, pos, TokenChars, -1)
         IN <<Slice(s, pos, pos + n - 1)>> \o FindTokens(s, pos + n)

\* words of extract_skills
SkillWords(t) == FindTokens(LowerStr(t), 1)

\* 1. aliases: every word that is a key of SKILL_ALIASES adds its canonical skill
AliasLayer(t) ==
    LET words == SkillWords(t)
    IN {format_skill(SKILL_ALIASES[a][2]) :
            a \in {x \in 1..Len(SKILL_ALIASES) :
                       \E i \in 1..Len(words) : words[i] = SKILL_ALIASES[x][1]}}

\* 2. special pattern skills: direct search in the lower-cased text
SymbolLayer(t) ==
    {format_skill(skill) :
         skill \in {x \in special_pattern_skills : Contains(LowerStr(t), LowerStr(x))}}

\* the search without the word boundaries: a plain substring test
WholeWordIn_NoBoundary(skill, s) == Contains(s, skill)

\* the search anchored at the start of the text, as re.match would do
WholeWordIn_AtStart(skill, s) ==
    /\ OccursAt(skill, s, 1)
    /\ AtWordBoundary(s, 1)
    /\ AtWordBoundary(s, 1 + Len(skill))

\* re.search(r'\b' + re.escape(skill) + r'\b', s)
WholeWordIn(skill, s) ==
    \E i \in 1..(Len(s) + 1) :
        /\ OccursAt(skill, s, i)
        /\ AtWordBoundary(s, i)
        /\ AtWordBoundary(s, i + Len(skill))

\* 3. exact matches on word boundaries of the skills that layer 2 did not handle
ExactLayer(t) ==
    {format_skill(SKILLS_LIST[k]) :
         k \in {x \in 1..Len(SKILLS_LIST) :
                    /\ SKILLS_LIST[x] \notin special_pattern_skills
                    /\ WholeWordIn(LowerStr(SKILLS_LIST[x]), LowerStr(t))}}

Max(a, b) == IF a >= b THEN a ELSE b
Min(a, b) == IF a <= b THEN a ELSE b

\* the length of the longest common subsequence of a and b, one table row at a
\* time: row[j + 1] is the length for the characters of a seen so far and b[1..j]
RECURSIVE LcsRow(_, _, _, _)
LcsRow(prev, x, b, cur) ==
    IF Len(cur) > Len(b) THEN cur
    ELSE LET j == Len(cur)
         IN LcsRow(prev, x, b,
                   Append(cur, IF x = b[j] THEN prev[j] + 1 ELSE Max(prev[j + 1], cur[j])))
RECURSIVE LcsRows(_, _, _, _)
LcsRows(a, b, i, prev) ==
    IF i > Len(a) THEN prev[Len(b) + 1]
    ELSE LcsRows(a, b, i + 1, LcsRow(prev, a[i], b, <<0>>))
LcsLen(a, b) == LcsRows(a, b, 1, [j \in 1..(Len(b) + 1) |-> 0])

\* fuzz.ratio(a, b) >= cutoff, the ratio being 100 * 2 * lcs / (len(a) + len(b));
\* the common subsequence is no longer than the shorter string, which decides
\* most pairs without the table
RatioAtLeast(a, b, cutoff) ==
    /\ 200 * Min(Len(a), Len(b)) >= cutoff * (Len(a) + Len(b))
    /\ 200 * LcsLen(a, b) >= cutoff * (Len(a) + Len(b))

\* fuzz.ratio(a, b) > fuzz.ratio(a, c)
RatioGreater(a, b, c) == LcsLen(a, b) * (Len(a) + Len(c)) > LcsLen(a, c) * (Len(a) + Len(b))

\* process.extractOne(word, SKILLS_LIST, scorer=fuzz.ratio, score_cutoff=85): the
\* indices of the skills that reach the cutoff, and the best of them, the
\* first in the list among equals
\* the candidates under a cutoff of 60 instead of 85
FuzzyCandidates_Cutoff60(word) ==
    {k \in 1..Len(SKILLS_LIST) : RatioAtLeast(word, SKILLS_LIST[k], 60)}
FuzzyCandidates(word) == {k \in 1..Len(SKILLS_LIST) : RatioAtLeast(word, SKILLS_LIST[k], 85)}
ExtractOne(word) ==
    LET cands == FuzzyCandidates(word)
    IN CHOOSE k \in cands :
           \A j \in cands \ {k} :
               \/ RatioGreater(word, SKILLS_LIST[k], SKILLS_LIST[j])
               \/ (~RatioGreater(word, SKILLS_LIST[j], SKILLS_LIST[k]) /\ k < j)

\* matched_words: the words of the labels found by layers 1 to 3
MatchedWords(found) ==
    UNION {{SplitWhitespace(LowerStr(label))[i] : i \in 1..Len(SplitWhitespace(LowerStr(label)))} :
               label \in found}

\* word.isdigit() or re.match(r'^[0-9./-]+$', word)
LooksLikeNoise(word) == \A i \in 1..Len(word) : word[i] \in Digit \cup {".", "/", "-"}

\* 4. fuzzy matching of the words that are long enough and not already matched
FuzzyLayer(t, found) ==
    LET words == SkillWords(t)
        matched_words == MatchedWords(found)
        tried == {i \in 1..Len(words) :
                      /\ ~(Len(words[i]) < 4 \/ words[i] \in matched_words)
                      /\ ~LooksLikeNoise(words[i])}
    IN {format_skill(SKILLS_LIST[ExtractOne(words[i])]) :
            i \in {x \in tried : FuzzyCandidates(words[x]) # {}}}

\* the whole function
extract_skills(t) ==
    LET found == AliasLayer(t) \cup SymbolLayer(t) \cup ExactLayer(t)
    IN found \cup FuzzyLayer(t, found)

MaxSkillPieces == 2
\* Proficient in JS, TS, k8s, and py
AliasSentence ==
    <<"P", "r", "o", "f", "i", "c", "i", "e", "n", "t", " ", "i", "n", " ", "J", "S", ",",
      " ", "T", "S", ",", " ", "k", "8", "s", ",", " ", "a", "n", "d", " ", "p", "y">>
\* Skills: Pythn, Javascrpt, Kuberntes
TypoSentence ==
    <<"S", "k", "i", "l", "l", "s", ":", " ", "P", "y", "t", "h", "n", ",", " ", "J", "a",
      "v", "a", "s", "c", "r", "p", "t", ",", " ", "K", "u", "b", "e", "r", "n", "t", "e",
      "s">>
\* I enjoy playing guitar and reading books about history
UnrelatedSentence ==
    <<"I", " ", "e", "n", "j", "o", "y", " ", "p", "l", "a", "y", "i", "n", "g", " ", "g",
      "u", "i", "t", "a", "r", " ", "a", "n", "d", " ", "r", "e", "a", "d", "i", "n", "g",
      " ", "b", "o", "o", "k", "s", " ", "a", "b", "o", "u", "t", " ", "h", "i", "s", "t",
      "o", "r", "y">>
SkillPieces ==
    { AliasSentence, TypoSentence, UnrelatedSentence,
      \* js
      <<"j", "s">>,
      \* postgres
      <<"p", "o", "s", "t", "g", "r", "e", "s">>,
      \* golang
      <<"g", "o", "l", "a", "n", "g">>,
      \* python
      <<"p", "y", "t", "h", "o", "n">>,
      \* machine learning
      <<"m", "a", "c", "h", "i", "n", "e", " ", "l", "e", "a", "r", "n", "i", "n", "g">>,
      \* learning
      <<"l", "e", "a", "r", "n", "i", "n", "g">>,
      \* c#
      <<"c", "#">>,
      \* 2024
      <<"2", "0", "2", "4">> }

InitSkills ==
    /\ \E ps \in StringsUpTo(SkillPieces, MaxSkillPieces) : text = Join(ps, <<" ">>)
    /\ NothingExtracted

\* 1. Check aliases first
CheckAliases ==
    /\ pc = "start"
    /\ found_skills' = found_skills \cup AliasLayer(text)
    /\ pc' = "special"
    /\ UNCHANGED <<text, notSkills>>

\* 2. Handle special pattern skills
MatchSpecial ==
    /\ pc = "special"
    /\ found_skills' = found_skills \cup SymbolLayer(text)
    /\ pc' = "exact"
    /\ UNCHANGED <<text, notSkills>>

\* 3. Exact matches using word boundaries
MatchExact ==
    /\ pc = "exact"
    /\ found_skills' = found_skills \cup ExactLayer(text)
    /\ pc' = "fuzzy"
    /\ UNCHANGED <<text, notSkills>>

\* 4. Fuzzy matching for typos, then return
MatchFuzzy ==
    /\ pc = "fuzzy"
    /\ found_skills' = found_skills \cup FuzzyLayer(text, found_skills)
    /\ pc' = "done"
    /\ UNCHANGED <<text, notSkills>>

NextSkills == CheckAliases \/ MatchSpecial \/ MatchExact \/ MatchFuzzy

SpecSkills == InitSkills /\ [][NextSkills]_vars

\* the canonical skill of an alias word
C8_Canonical(word) ==
    SKILL_ALIASES[CHOOSE a \in 1..Len(SKILL_ALIASES) : SKILL_ALIASES[a][1] = word][2]
C8_IsAlias(word) == \E a \in 1..Len(SKILL_ALIASES) : SKILL_ALIASES[a][1] = word

\* the only skill-bearing tokens of the text are alias tokens: no symbol skill
\* and no vocabulary entry occurs in it, and no other token is within the
\* fuzzy cutoff of a vocabulary entry
C8_OnlyAliasTokens(t) ==
    LET words == SkillWords(t)
    IN /\ \E i \in 1..Len(words) : C8_IsAlias(words[i])
       /\ \A skill \in special_pattern_skills : ~Contains(LowerStr(t), skill)
       /\ \A k \in 1..Len(SKILLS_LIST) :
              /\ ~WholeWordIn(SKILLS_LIST[k], LowerStr(t))
              /\ \A i \in 1..Len(words) :
                     (~C8_IsAlias(words[i]) /\ Len(words[i]) >= 4) =>
                         ~RatioAtLeast(words[i], SKILLS_LIST[k], 85)

C9_Ratio85(word, k) == RatioAtLeast(word, SKILLS_LIST[k], 85)

\* the vocabulary entry most similar to the word, the first in the list among equals
C9_Best(word) ==
    CHOOSE k \in 1..Len(SKILLS_LIST) :
        /\ C9_Ratio85(word, k)
        /\ \A j \in 1..Len(SKILLS_LIST) :
               C9_Ratio85(word, j) =>
                   LET mine == LcsLen(word, SKILLS_LIST[k]) * (Len(word) + Len(SKILLS_LIST[j]))
                       other == LcsLen(word, SKILLS_LIST[j]) * (Len(word) + Len(SKILLS_LIST[k]))
                   IN mine > other \/ (mine = other /\ k <= j)

\* the labels of the tokens that are at least 4 characters long, not purely
\* numeric or punctuation, and within the cutoff of a vocabulary entry
C9_FuzzyLabels(t) ==
    LET words == SkillWords(t)
    IN {format_skill(SKILLS_LIST[C9_Best(words[i])]) :
            i \in {x \in 1..Len(words) :
                       /\ Len(words[x]) >= 4
                       /\ \E c \in 1..Len(words[x]) : words[x][c] \notin Digit \cup {".", "/", "-"}
                       /\ \E k \in 1..Len(SKILLS_LIST) : C9_Ratio85(words[x], k)}}

\* C9: beyond what the alias, symbol and whole-word layers find, a token adds a
\* skill exactly when it is at least 4 characters long, not purely numeric or
\* punctuation, and its best ratio against the vocabulary is at least 85: the
\* unrelated sentence yields nothing, the typos resolve to their skills.
C9_FuzzyOnlyAboveCutoff ==
    pc = "done" =>
        /\ found_skills =
               AliasLayer(text) \cup SymbolLayer(text) \cup ExactLayer(text)
                   \cup C9_FuzzyLabels(text)
        /\ text = UnrelatedSentence => found_skills = {}
        /\ text = TypoSentence =>
               { <<"P", "y", "t", "h", "o", "n">>,
                 <<"J", "a", "v", "a", "s", "c", "r", "i", "p", "t">>,
                 <<"K", "u", "b", "e", "r", "n", "e", "t", "e", "s">> } \subseteq found_skills

\* the typo sentence has been processed: the fuzzy layer alone found its skills
C9_Witness ==
    /\ pc = "done"
    /\ text = TypoSentence
    /\ AliasLayer(text) \cup SymbolLayer(text) \cup ExactLayer(text) = {}
    /\ Cardinality(found_skills) = 3

(***************************************************************************)
(* extract_skills on two texts that hold the same words in another order   *)
(***************************************************************************)
MaxOrderWords == 2
OrderWords ==
    { <<"m", "a", "c", "h", "i", "n", "e">>,
      <<"l", "e", "a", "r", "n", "i", "n", "g">>,
      <<"p", "o", "w", "e", "r">>,
      <<"b", "i">>,
      <<"j", "s">>,
      <<"p", "y", "t", "h", "o", "n">>,
      <<"p", "y", "t", "h", "n">>,
      <<"g", "u", "i", "t", "a", "r">>,
      <<"c", "#">>,
      <<"n", "l", "p">> }

InitSkillOrder ==
    /\ \E ws \in StringsUpTo(OrderWords, MaxOrderWords) : text = Join(ws, <<" ">>)
    /\ NothingExtracted

\* the words of a sequence with those at i and j exchanged
SwapWords(ws, i, j) ==
    [k \in 1..Len(ws) |-> IF k = i THEN ws[j] ELSE IF k = j THEN ws[i] ELSE ws[k]]

\* extract_skills(text)
ExtractSkills ==
    /\ pc = "start"
    /\ found_skills' = extract_skills(text)
    /\ pc' = "done"
    /\ UNCHANGED <<text, notSkills>>

\* extract_skills on the text with two of its words exchanged
ExtractReordered ==
    /\ pc = "done"
    /\ LET ws == SplitOn(text, " ")
       IN \E i \in 1..Len(ws), j \in 1..Len(ws) :
              /\ i < j
              /\ text' = Join(SwapWords(ws, i, j), <<" ">>)
    /\ found_skills' = extract_skills(text')
    /\ UNCHANGED <<pc, notSkills>>

NextSkillOrder == ExtractSkills \/ ExtractReordered

SpecSkillOrder == InitSkillOrder /\ [][NextSkillOrder]_vars

\* C10 as stated: the same words in another order give the same set of skills.
C10_OrderIndependent ==
    [][(pc = "done" /\ pc' = "done") => found_skills' = found_skills]_vars

\* the text holds a vocabulary skill of more than one word
C10_HoldsPhrase(t) ==
    \E k \in 1..Len(SKILLS_LIST) :
        Contains(SKILLS_LIST[k], <<" ">>) /\ Contains(LowerStr(t), SKILLS_LIST[k])

\* C10 amended: the same words in another order give the same set of skills
\* provided neither text holds a multi-word vocabulary skill; such a skill is
\* found only where its words stand next to each other and in order.
C10_OrderIndependentWithoutPhrases ==
    [][(pc = "done" /\ pc' = "done" /\ ~C10_HoldsPhrase(text) /\ ~C10_HoldsPhrase(text'))
           => found_skills' = found_skills]_vars

\* a text of two different words, none a phrase skill, with skills found in it
C10_Witness ==
    /\ pc = "done"
    /\ ~C10_HoldsPhrase(text)
    /\ Len(SplitOn(text, " ")) = 2
    /\ SplitOn(text, " ")[1] # SplitOn(text, " ")[2]
    /\ Cardinality(found_skills) = 2

(***************************************************************************)
(* The casing of the labels: extract_skills on texts that name symbol      *)
(* skills, nlp and ordinary skills, through each of the four layers.       *)
(***************************************************************************)
MaxCasingPieces == 2
CasingPieces ==
    {
      \* C#
      <<"C", "#">>,
      \* c++
      <<"c", "+", "+">>,
      \* .NET
      <<".", "N", "E", "T">>,
      \* CI/CD
      <<"C", "I", "/", "C", "D">>,
      \* ui/ux
      <<"u", "i", "/", "u", "x">>,
      \* node.js
      <<"n", "o", "d", "e", ".", "j", "s">>,
      \* Node
      <<"N", "o", "d", "e">>,
      \* NLP
      <<"N", "L", "P">>,
      \* Python
      <<"P", "y", "t", "h", "o", "n">>,
      \* power bi
      <<"p", "o", "w", "e", "r", " ", "b", "i">>,
      \* csharp
      <<"c", "s", "h", "a", "r", "p">>,
      \* scikit
      <<"s", "c", "i", "k", "i", "t">>,
      \* Pythn
      <<"P", "y", "t", "h", "n">>,
      \* guitar
      <<"g", "u", "i", "t", "a", "r">> }

InitSkillCasing ==
    /\ \E ps \in StringsUpTo(CasingPieces, MaxCasingPieces) : text = Join(ps, <<" ">>)
    /\ NothingExtracted

SpecSkillCasing == InitSkillCasing /\ [][NextSkills]_vars

\* the skills the casing rule names as holding a non-word symbol
C11_SymbolSkills ==
    {<<"c", "#">>, <<"c", "+", "+">>, <<".", "n", "e", "t">>, <<"c", "i", "/", "c", "d">>,
     <<"u", "i", "/", "u", "x">>, <<"n", "o", "d", "e", ".", "j", "s">>}
\* the label the casing rule gives a skill of the vocabulary
C11_Cased(skill) ==
    IF skill \in C11_SymbolSkills THEN skill
    ELSE IF skill = <<"n", "l", "p">> THEN <<"N", "L", "P">>
    ELSE TitleStr(skill)
\* C11: every label extract_skills returns is a vocabulary skill in the casing
\* the rule gives it: literal for a symbol skill (node.js among them), NLP for
\* nlp, title case for every other, whichever layer found it
C11_CasingRule ==
    pc = "done" =>
        \A label \in found_skills :
            \E k \in 1..Len(SKILLS_LIST) : label = C11_Cased(SKILLS_LIST[k])

(***************************************************************************)
(* extract_experience_years                                                *)
(***************************************************************************)
\* (\d+)\+?\s*years?\s*(?:of)?\s*experience
YearsThenExperience ==
    <<OpenGroup, Plus(Digit), CloseGroup, Opt({"+"}), Star(Whitespace)>>
    \o Lit(<<"y", "e", "a", "r">>)
    \o <<Opt({"s"}), Star(Whitespace), OptGroup(Lit(<<"o", "f">>)), Star(Whitespace)>>
    \o Lit(<<"e", "x", "p", "e", "r", "i", "e", "n", "c", "e">>)
\* experience\s*[:.]?\s*(\d+)\+?\s*years?
ExperienceThenYears ==
    Lit(<<"e", "x", "p", "e", "r", "i", "e", "n", "c", "e">>)
    \o <<Star(Whitespace), Opt({":", "."}), Star(Whitespace), OpenGroup, Plus(Digit),
         CloseGroup, Opt({"+"}), Star(Whitespace)>>
    \o Lit(<<"y", "e", "a", "r">>)
    \o <<Opt({"s"})>>
\* (\d+)-\d+\s*years?\s*(?:of)?\s*experience
RangeThenExperience ==
    <<OpenGroup, Plus(Digit), CloseGroup, One("-"), Plus(Digit), Star(Whitespace)>>
    \o Lit(<<"y", "e", "a", "r">>)
    \o <<Opt({"s"}), Star(Whitespace), OptGroup(Lit(<<"o", "f">>)), Star(Whitespace)>>
    \o Lit(<<"e", "x", "p", "e", "r", "i", "e", "n", "c", "e">>)

\* the list with the range pattern tried first
experience_patterns_range_first ==
    <<RangeThenExperience, YearsThenExperience, ExperienceThenYears>>
\* the list with the second pattern tried first
experience_patterns_second_first ==
    <<ExperienceThenYears, YearsThenExperience, RangeThenExperience>>

experience_patterns == <<YearsThenExperience, ExperienceThenYears, RangeThenExperience>>

\* the whole function: the loop over the patterns from the k-th on
RECURSIVE ExperienceFrom(_, _)
ExperienceFrom(t, k) ==
    IF k > Len(experience_patterns) THEN None
    ELSE LET match == SearchGroups(experience_patterns[k], LowerStr(t))
         IN IF match.stop # Fail THEN ToInt(Group1(match, LowerStr(t)))
            ELSE ExperienceFrom(t, k + 1)
extract_experience_years(t) == ExperienceFrom(t, 1)

MaxExpPieces == 3
ExpPieces ==
    {
      \* 5 years experience
      <<"5", " ", "y", "e", "a", "r", "s", " ", "e", "x", "p", "e", "r", "i", "e", "n", "c", "e">>,
      \* 3-7 years of experience
      <<"3", "-", "7", " ", "y", "e", "a", "r", "s", " ", "o", "f", " ", "e", "x", "p", "e", "r", "i", "e", "n", "c", "e">>,
      \* Experience: 2+ years
      <<"E", "x", "p", "e", "r", "i", "e", "n", "c", "e", ":", " ", "2", "+", " ", "y", "e", "a", "r", "s">>,
      \* 10+ year
      <<"1", "0", "+", " ", "y", "e", "a", "r">>,
      \*  
      <<" ">>,
      \* 1
      <<"1">>,
      \* of experience
      <<"o", "f", " ", "e", "x", "p", "e", "r", "i", "e", "n", "c", "e">>,
      \* . 
      <<".", " ">> }

InitExperience ==
    /\ text \in TextsOf(ExpPieces, MaxExpPieces)
    /\ NothingExtracted

\* for pattern in patterns: the pattern matches, int(match.group(1)) is
\* returned, or int() raises and nothing is returned
ExperienceMatch ==
    /\ pc = "start"
    /\ experience_idx < Len(experience_patterns)
    /\ LET match == SearchGroups(experience_patterns[experience_idx + 1], LowerStr(text))
           years == ToInt(Group1(match, LowerStr(text)))
       IN /\ match.stop # Fail
          /\ IF years = ValueError
             THEN pc' = "raised" /\ UNCHANGED experience_years
             ELSE pc' = "done" /\ experience_years' = years
    /\ experience_idx' = experience_idx + 1
    /\ UNCHANGED <<text, notExperience>>

\* the pattern does not match: on to the next one
ExperienceNoMatch ==
    /\ pc = "start"
    /\ experience_idx < Len(experience_patterns)
    /\ SearchGroups(experience_patterns[experience_idx + 1], LowerStr(text)).stop = Fail
    /\ experience_idx' = experience_idx + 1
    /\ UNCHANGED <<text, pc, experience_years, notExperience>>

\* the loop ran out of patterns: return None
ExperienceNone ==
    /\ pc = "start"
    /\ experience_idx = Len(experience_patterns)
    /\ experience_years' = None
    /\ pc' = "done"
    /\ UNCHANGED <<text, experience_idx, notExperience>>

NextExperience == ExperienceMatch \/ ExperienceNoMatch \/ ExperienceNone

SpecExperience == InitExperience /\ [][NextExperience]_vars

\* the number the first match of pat captures in the lower-cased text t
C13_Captured(pat, t) == ToInt(Group1(SearchGroups(pat, LowerStr(t)), LowerStr(t)))
C13_Matches(pat, t) == SearchGroups(pat, LowerStr(t)).stop # Fail
\* C13: the result is the integer captured by the first match of the
\* highest-priority pattern that matches anywhere in the lower-cased text
\* ("N years experience" before "experience N years" before the range form),
\* wherever in the text the matches stand; the numbers of several mentions are
\* never combined; the result is absent when no pattern matches.
C13_PriorityNotPosition ==
    pc = "done" =>
        experience_years =
            IF C13_Matches(YearsThenExperience, text)
            THEN C13_Captured(YearsThenExperience, text)
            ELSE IF C13_Matches(ExperienceThenYears, text)
            THEN C13_Captured(ExperienceThenYears, text)
            ELSE IF C13_Matches(RangeThenExperience, text)
            THEN C13_Captured(RangeThenExperience, text)
            ELSE None
\* a lower-priority pattern matches earlier in the text than the first pattern
\* and captures another number, and the first pattern's number is returned
C13_Witness ==
    /\ pc = "done"
    /\ C13_Matches(YearsThenExperience, text)
    /\ C13_Matches(ExperienceThenYears, text)
    /\ SearchGroups(ExperienceThenYears, LowerStr(text)).start
           < SearchGroups(YearsThenExperience, LowerStr(text)).start
    /\ C13_Captured(ExperienceThenYears, text) # C13_Captured(YearsThenExperience, text)
    /\ experience_years = C13_Captured(YearsThenExperience, text)

\* the range form with its group on the upper bound: \d+-(\d+)\s*years?\s*(?:of)?\s*experience
C18_RangeUpper ==
    <<Plus(Digit), One("-"), OpenGroup, Plus(Digit), CloseGroup, Star(Whitespace)>>
    \o Lit(<<"y", "e", "a", "r">>)
    \o <<Opt({"s"}), Star(Whitespace), OptGroup(Lit(<<"o", "f">>)), Star(Whitespace)>>
    \o Lit(<<"e", "x", "p", "e", "r", "i", "e", "n", "c", "e">>)
C18_Start(pat, t) == SearchGroups(pat, LowerStr(t)).start
\* C18: the third pattern (the range "N-M years experience") never determines
\* the result: a text it matches is matched by the first pattern, whose number
\* is returned, and no result comes from the third turn of the loop; where the
\* range is the first mention of the text, the result is its upper bound M.
C18_RangeNeverDecides ==
    pc = "done" =>
        /\ experience_years # None => experience_idx < 3
        /\ C13_Matches(RangeThenExperience, text) =>
              /\ C13_Matches(YearsThenExperience, text)
              /\ experience_idx = 1
              /\ experience_years = C13_Captured(YearsThenExperience, text)
              /\ C18_Start(YearsThenExperience, text) >= C18_Start(RangeThenExperience, text)
                    => experience_years = C13_Captured(C18_RangeUpper, text)
\* a text whose first mention is a range with two different bounds, and the
\* upper one is returned
C18_Witness ==
    /\ pc = "done"
    /\ C13_Matches(RangeThenExperience, text)
    /\ C18_Start(YearsThenExperience, text) > C18_Start(RangeThenExperience, text)
    /\ experience_years = C13_Captured(C18_RangeUpper, text)
    /\ experience_years # C13_Captured(RangeThenExperience, text)

(***************************************************************************)
(* extract_education                                                       *)
(***************************************************************************)
\* (?:bachelor|master|doctor)
DegreeWord == Alt(<<Lit(<<"b", "a", "c", "h", "e", "l", "o", "r">>),
                    Lit(<<"m", "a", "s", "t", "e", "r">>),
                    Lit(<<"d", "o", "c", "t", "o", "r">>)>>)
\* (?:['s]?s?)?: the typographic apostrophe of the class is outside the
\* alphabet of the texts and of the strings of this module
Possessive == OptGroup(<<Opt({"'"}), Opt({"s"})>>)
\* x\.?y\.?
Dotted(x, y) == <<One(x), Opt({"."}), One(y), Opt({"."})>>
\* (?:degree\s+)?
DegreeOpt == OptGroup(Lit(<<"d", "e", "g", "r", "e", "e">>) \o <<Plus(Whitespace)>>)
OfIn == Alt(<<Lit(<<"o", "f">>), Lit(<<"i", "n">>)>>)
\* [\w\s&,-] and [\w\s,-]
DescriptionChars == WordChar \cup Whitespace \cup {"&", ",", "-"}
TailChars == WordChar \cup Whitespace \cup {",", "-"}
\* (?:university|college|institute|school|polytechnic)
Institution ==
    Alt(<<Lit(<<"u", "n", "i", "v", "e", "r", "s", "i", "t", "y">>),
          Lit(<<"c", "o", "l", "l", "e", "g", "e">>),
          Lit(<<"i", "n", "s", "t", "i", "t", "u", "t", "e">>),
          Lit(<<"s", "c", "h", "o", "o", "l">>),
          Lit(<<"p", "o", "l", "y", "t", "e", "c", "h", "n", "i", "c">>)>>)
\* Pattern 1: Bachelor's Degree in X, University of Y
DegreeWithInstitution ==
    <<Alt(<<<<DegreeWord, Possessive>>, Dotted("b", "s"), Dotted("m", "s"), Dotted("b", "a"),
            Dotted("m", "a"), Lit(<<"m", "b", "a">>),
            <<One("p"), One("h"), Opt({"."}), One("d"), Opt({"."})>>>>),
      Plus(Whitespace), DegreeOpt, OptGroup(<<OfIn>>), Plus(Whitespace),
      Plus(DescriptionChars), Institution, Star(TailChars)>>
\* Pattern 2: Bachelor's Degree in X
DegreeInSubject ==
    <<DegreeWord, Possessive, Plus(Whitespace), DegreeOpt, OfIn, Plus(Whitespace),
      Plus(DescriptionChars)>>
\* Pattern 3: B.S. in X
AbbreviationInSubject ==
    <<Alt(<<Dotted("b", "s"), Dotted("m", "s"), Dotted("b", "a"), Dotted("m", "a")>>),
      Plus(Whitespace)>>
    \o Lit(<<"i", "n">>)
    \o <<Plus(Whitespace), Plus(DescriptionChars)>>
degree_patterns == <<DegreeWithInstitution, DegreeInSubject, AbbreviationInSubject>>

\* re.finditer(pat, s): the matches from left to right, none overlapping
RECURSIVE FindIter(_, _, _)
FindIter(pat, s, from) ==
    LET m == SearchGroupsFrom(pat, s, from)
    IN IF m.stop = Fail THEN <<>>
       ELSE <<m>> \o FindIter(pat, s, IF m.stop = m.start THEN m.stop + 1 ELSE m.stop)

\* the candidates of the matches ms[k..] of one pattern: the text of the match
\* in its original case, stripped, kept if 10 < len < 100, whitespace collapsed
RECURSIVE MatchCandidates(_, _, _)
MatchCandidates(t, ms, k) ==
    IF k > Len(ms) THEN <<>>
    ELSE LET match_text == Strip(Slice(t, ms[k].start, ms[k].stop - 1))
         IN (IF 10 < Len(match_text) /\ Len(match_text) < 100
             THEN <<CollapseWhitespace(match_text)>> ELSE <<>>)
            \o MatchCandidates(t, ms, k + 1)

\* 1. the regex patterns on the whole text, one pattern after the other
RECURSIVE PatternCandidates(_, _)
PatternCandidates(t, k) ==
    IF k > Len(degree_patterns) THEN <<>>
    ELSE MatchCandidates(t, FindIter(degree_patterns[k], LowerStr(t), 1), 1)
         \o PatternCandidates(t, k + 1)

degree_keywords ==
    <<<<"b", "a", "c", "h", "e", "l", "o", "r">>,
      <<"m", "a", "s", "t", "e", "r">>,
      <<"p", "h", "d">>,
      <<"d", "o", "c", "t", "o", "r", "a", "t", "e">>,
      <<"b", "s", "c">>,
      <<"m", "s", "c">>,
      <<"m", "b", "a">>,
      <<"d", "e", "g", "r", "e", "e", " ", "i", "n">>>>
header_lines ==
    <<<<"e", "d", "u", "c", "a", "t", "i", "o", "n">>,
      <<"e", "d", "u", "c", "a", "t", "i", "o", "n", " ", "h", "i", "s", "t", "o", "r", "y">>,
      <<"a", "c", "a", "d", "e", "m", "i", "c", " ", "b", "a", "c", "k", "g", "r", "o", "u", "n", "d">>>>

\* 2. the fallback: the lines of 10 to 150 characters that hold a degree keyword
RECURSIVE LineCandidates(_, _)
LineCandidates(lines, k) ==
    IF k > Len(lines) THEN <<>>
    ELSE LET line_clean == Strip(lines[k])
             line_lower == LowerStr(line_clean)
         IN (IF /\ ~(Len(line_clean) < 10 \/ Len(line_clean) > 150)
                /\ ContainsAny(line_lower, degree_keywords)
                /\ \A h \in 1..Len(header_lines) : line_lower # header_lines[h]
             THEN <<line_clean>> ELSE <<>>)
            \o LineCandidates(lines, k + 1)

\* degrees.sort(key=len, reverse=True): stable, equal lengths keep their order
RECURSIVE InsertByLen(_, _)
InsertByLen(sorted, d) ==
    IF Len(sorted) = 0 THEN <<d>>
    ELSE IF Len(Head(sorted)) >= Len(d) THEN <<Head(sorted)>> \o InsertByLen(Tail(sorted), d)
    ELSE <<d>> \o sorted
RECURSIVE SortByLen(_)
SortByLen(ds) ==
    IF Len(ds) = 0 THEN <<>>
    ELSE InsertByLen(SortByLen(SubSeq(ds, 1, Len(ds) - 1)), ds[Len(ds)])

\* set(s.split())
WordSet(str) == {SplitWhitespace(str)[i] : i \in 1..Len(SplitWhitespace(str))}

\* is_duplicate: d is a substring of a kept entry, or the words they share are
\* more than 0.6 of the words of the kept entry
IsDuplicate(d, unique_degrees) ==
    \E u \in 1..Len(unique_degrees) :
        LET d_words == WordSet(LowerStr(d))
            u_words == WordSet(LowerStr(unique_degrees[u]))
        IN \/ Contains(LowerStr(unique_degrees[u]), LowerStr(d))
           \/ /\ d_words # {} /\ u_words # {}
              /\ 10 * Cardinality(d_words \cap u_words) > 6 * Cardinality(u_words)

\* the loop over the sorted candidates ds[k..]
RECURSIVE UniqueDegrees(_, _, _)
UniqueDegrees(ds, k, unique_degrees) ==
    IF k > Len(ds) THEN unique_degrees
    ELSE UniqueDegrees(ds, k + 1,
                       IF IsDuplicate(ds[k], unique_degrees) THEN unique_degrees
                       ELSE Append(unique_degrees, ds[k]))

\* the whole function
extract_education(t) ==
    LET found == PatternCandidates(t, 1)
        all == IF Len(found) = 0 THEN LineCandidates(SplitOn(t, "\n"), 1) ELSE found
    IN Prefix(UniqueDegrees(SortByLen(all), 1, <<>>), 3)

MaxEduPieces == 2
EduPieces ==
    {
      \* Master of Science in Computing, Bahrain University
      <<"M", "a", "s", "t", "e", "r", " ", "o", "f", " ", "S", "c", "i", "e", "n", "c", "e",
        " ", "i", "n", " ", "C", "o", "m", "p", "u", "t", "i", "n", "g", ",", " ", "B", "a",
        "h", "r", "a", "i", "n", " ", "U", "n", "i", "v", "e", "r", "s", "i", "t", "y">>,
      \* Master in Computing
      <<"M", "a", "s", "t", "e", "r", " ", "i", "n", " ", "C", "o", "m", "p", "u", "t", "i",
        "n", "g">>,
      \* MBA Harvard Business School 2010
      <<"M", "B", "A", " ", "H", "a", "r", "v", "a", "r", "d", " ", "B", "u", "s", "i", "n",
        "e", "s", "s", " ", "S", "c", "h", "o", "o", "l", " ", "2", "0", "1", "0">>,
      \* Harvard MBA
      <<"H", "a", "r", "v", "a", "r", "d", " ", "M", "B", "A">>,
      \* BSc in Computing
      <<"B", "S", "c", " ", "i", "n", " ", "C", "o", "m", "p", "u", "t", "i", "n", "g">>,
      \* Education
      <<"E", "d", "u", "c", "a", "t", "i", "o", "n">>,
      \* B.S. in Physics
      <<"B", ".", "S", ".", " ", "i", "n", " ", "P", "h", "y", "s", "i", "c", "s">> }
EduSeparators == {<<"\n">>, <<" ", "|", " ">>}

InitEducation ==
    /\ \E ps \in StringsUpTo(EduPieces, MaxEduPieces), sep \in EduSeparators :
           text = Join(ps, sep)
    /\ NothingExtracted

\* 1. Try regex patterns on the whole text
MatchDegreePatterns ==
    /\ pc = "start"
    /\ degrees' = PatternCandidates(text, 1)
    /\ pc' = "fallback"
    /\ UNCHANGED <<text, education, notEducation>>

\* 2. Fallback: line-based search, if not degrees
FallbackLines ==
    /\ pc = "fallback"
    /\ Len(degrees) = 0
    /\ degrees' = LineCandidates(SplitOn(text, "\n"), 1)
    /\ pc' = "dedup"
    /\ UNCHANGED <<text, education, notEducation>>

\* the patterns found candidates: no fallback
SkipFallback ==
    /\ pc = "fallback"
    /\ Len(degrees) > 0
    /\ pc' = "dedup"
    /\ UNCHANGED <<text, degrees, education, notEducation>>

\* sort by length, remove duplicates, return the first three
RemoveDuplicates ==
    /\ pc = "dedup"
    /\ degrees' = SortByLen(degrees)
    /\ education' = Prefix(UniqueDegrees(SortByLen(degrees), 1, <<>>), 3)
    /\ pc' = "done"
    /\ UNCHANGED <<text, notEducation>>

NextEducation == MatchDegreePatterns \/ FallbackLines \/ SkipFallback \/ RemoveDuplicates

SpecEducation == InitEducation /\ [][NextEducation]_vars

\* the share of the words of a that b holds is at least tenths/10
C12_Overlap(a, b, tenths) ==
    LET a_words == WordSet(LowerStr(a))
        b_words == WordSet(LowerStr(b))
    IN a_words # {} /\ 10 * Cardinality(a_words \cap b_words) >= tenths * Cardinality(a_words)
\* C12: the entries extract_education returns are pairwise non-subsuming: of
\* two returned entries neither is a case-insensitive substring of the other
\* and neither one's word set overlaps the other's by 60% or more; of two
\* candidates where at least 90% of one's words are in the other's word set,
\* the shorter one is not returned.
C12_PairwiseNonSubsuming ==
    pc = "done" =>
        /\ \A i, j \in 1..Len(education) :
               i # j =>
                   /\ ~Contains(LowerStr(education[i]), LowerStr(education[j]))
                   /\ ~C12_Overlap(education[i], education[j], 6)
        /\ \A i, j \in 1..Len(degrees) :
               (Len(degrees[i]) < Len(degrees[j]) /\ C12_Overlap(degrees[i], degrees[j], 9))
                   => \A e \in 1..Len(education) : education[e] # degrees[i]

(***************************************************************************)
(* extract_experience_years on numbers of about int_max_str_digits digits. *)
(***************************************************************************)
MaxExtraDigits == 1
\* n times the digit d
DigitRun(d, n) == SubSeq([i \in 1..n |-> d], 1, n)
LongNumberTexts ==
    {prefix \o lead \o DigitRun(d, n - Len(lead)) \o suffix :
         prefix \in {<<>>, <<"x", " ">>},
         lead \in {<<>>, <<"0">>},
         d \in {"1", "9"},
         n \in (int_max_str_digits - 1)..(int_max_str_digits + MaxExtraDigits),
         suffix \in {<<" ", "y", "e", "a", "r", "s", " ", "e", "x", "p", "e", "r", "i", "e", "n", "c", "e">>,
                     <<"+", " ", "y", "e", "a", "r", "s", " ", "o", "f", " ", "e", "x", "p", "e", "r", "i", "e", "n", "c", "e">>,
                     <<" ", "y", "e", "a", "r", " ", "e", "x", "p", "e", "r", "i", "e", "n", "c", "e">>}}

InitLongNumber ==
    /\ text \in LongNumberTexts \cup TextsOf(ExpPieces, 1)
    /\ NothingExtracted

SpecLongNumber == InitLongNumber /\ [][NextExperience]_vars

\* C14: parse_cv_text and every extractor it calls are total over strings: no
\* exception is raised for any text, and a field that is not found is returned
\* as an absent value; stated here of extract_experience_years, which
\* parse_cv_text calls on the whole text: the call never raises, and it returns
\* None or an int.
C14_Total ==
    /\ pc # "raised"
    /\ pc = "done" =>
           \/ experience_years = None
           \/ /\ Len(experience_years) > 0
              /\ \A i \in 1..Len(experience_years) : experience_years[i] \in Digit

(***************************************************************************)
(* extract_name on texts of several lines: where the contact line stands   *)
(* and how many lines strategy 1 looks at.                                 *)
(***************************************************************************)
MaxAnchorLines == 6
AnchorLines ==
    { \* John Smith
      <<"J", "o", "h", "n", " ", "S", "m", "i", "t", "h">>,
      \* a@b.co
      <<"a", "@", "b", ".", "c", "o">>,
      \* Skills
      <<"S", "k", "i", "l", "l", "s">> }

InitNameAnchor ==
    /\ \E ls \in StringsUpTo(AnchorLines, MaxAnchorLines) : text = Join(ls, <<"\n">>)
    /\ NothingExtracted

SpecNameAnchor == InitNameAnchor /\ [][NextName]_vars

\* C15: strategy 1 examines only the lines before the contact anchor (the first
\* line holding '@' or a phone-like digit run) and, when there is no anchor,
\* only the first 5 lines: the line it returns stands before the anchor, or
\* among the first 5 lines when there is no anchor.
C15_OnlyBeforeAnchor ==
    (pc = "done" /\ strategy = 1) =>
        LET lines == NameLinesOf(text)
            anchors == {a \in 1..Len(lines) : IsContactLine(lines[a])}
        IN \E i \in 1..Len(lines) :
               /\ lines[i] = name
               /\ \A a \in anchors : i < a
               /\ anchors = {} => i <= 5

Spec == SpecNormalize
====
